---- MODULE Spec2Model ----
(***************************************************************************)
(* Model of FourierSeriesAnimation: the SVG command validation and the     *)
(* path function of src/main.rs, the Fourier analyzer / synthesizer of     *)
(* src/util/math.rs and the application state driven by MyApp::update.     *)
(*                                                                         *)
(* Real numbers are modelled exactly: coordinates are integers, the curve  *)
(* parameter t is a rational num/den, and a point computed at t is kept    *)
(* as an integer numerator pair over the denominator den^3.                *)
(***************************************************************************)
EXTENDS Integers, Sequences, FiniteSets, TLC

VARIABLES
    command,            \* try_from: the svg Command handed to the conversion
    converted,          \* try_from: None, or Some(Result<VecCmdData, Error>)
    svg_events,         \* parse_svg_into_proc: the events svg::open yields
    pc,                 \* parse_svg_into_proc: "start" | "parsed" | "evaluated"
    proc,               \* parse_svg_into_proc: its Option<Box<dyn Fn>> result
    t_arg,              \* the closure's argument t, None before the call
    value,              \* the closure's return value (with the walk's trace)
    func_arg,           \* convert_to_fourier_series: its argument func
    n_arg,              \* convert_to_fourier_series: its argument n
    desc,               \* convert_to_fourier_series: None, or Some(outcome)
    synth,              \* as_fn: None, or Some(the sum evaluated at some t)
    arrows,             \* FourierAnimationWindow::ui: None, or Some(the arrows drawn)
    fourier_series_n,   \* MyApp.fourier_series_n
    disp_path,          \* MyApp.svg_select.disp_path
    animation_window,   \* MyApp.animation_window (WindowDesc<FourierAnimationWindow>)
    svg_preview_window, \* MyApp.svg_preview_window (WindowDesc<SvgPreviewWindow>)
    last_call_n,        \* the n of the latest call of convert_to_fourier_series
    crashed,            \* the process has panicked
    range,              \* integrate_v2: its argument range, <<start, end>>
    integrand,          \* integrate_v2: its argument func, by its quadrature estimates
    stack,              \* integrate_v2: the frames of the calls of inner in progress
    ret,                \* integrate_v2: the value the call that just ended returned
    returns,            \* integrate_v2: the calls of inner that have ended, in order
    result              \* integrate_v2: None, or Some(its return value)

tryFromVars == <<command, converted>>
curveVars == <<svg_events, pc, proc, t_arg, value>>
fourierVars == <<func_arg, n_arg, desc, synth, arrows>>
appVars == <<fourier_series_n, disp_path, animation_window, svg_preview_window,
             last_call_n, crashed>>
integrateVars == <<range, integrand, stack, ret, returns, result>>
vars == <<tryFromVars, curveVars, fourierVars, appVars, integrateVars>>

(***************************************************************************)
(* Bounds of the model                                                     *)
(***************************************************************************)
MaxParams == 13     \* longest parameter list of one svg command
MaxCmds == 4        \* most svg commands in one file
MaxDen == 4         \* largest denominator of the curve parameter t
MaxN == 13          \* largest coefficient count handed to the analyzer directly
SliderSpan == 2     \* how far from the slider's ends the chosen values lie
MaxSpikes == 2      \* most points at which an integrand defeats the quadrature

(***************************************************************************)
(* Option<T>: None is the empty sequence, Some(x) the one-element sequence *)
(***************************************************************************)
None == << >>
Some(x) == <<x>>
IsSome(o) == o # None
Unwrap(o) == o[1]

Complex(re, im) == [re |-> re, im |-> im]

(***************************************************************************)
(* svg::node::element::path::Command, as the parser hands it over          *)
(***************************************************************************)
Kinds == {"Move", "Line", "CubicCurve", "SmoothCubicCurve", "EllipticalArc"}
Positions == {"Absolute", "Relative"}

Command(kind, pos, param) == [kind |-> kind, pos |-> pos, param |-> param]
Close == [kind |-> "Close", pos |-> "Absolute", param |-> << >>]

\* Parameter lists with pairwise different numbers: the i-th is base + i.
Params(len, base) == [i \in 1..len |-> base + i]

(***************************************************************************)
(* CmdData and TryFromCommandError                                         *)
(***************************************************************************)
CmdMove(p0) == [cmd |-> "Move", p1 |-> p0, p2 |-> p0, p3 |-> p0]
CmdCubicCurve(p1, p2, p3) == [cmd |-> "CubicCurve", p1 |-> p1, p2 |-> p2, p3 |-> p3]

InvalidParameter == [error |-> "InvalidParameter", description |-> << >>]
UnrecognizedCommand(s) == [error |-> "UnrecognizedCommand", description |-> s]

Ok(v) == [ok |-> TRUE, data |-> v, err |-> InvalidParameter]
Err(e) == [ok |-> FALSE, data |-> << >>, err |-> e]

\* format!("{:?}", other_cmd): the variant name, then its fields.
DebugFormat(c) ==
    IF c.kind = "Close" THEN <<"Close">> ELSE <<c.kind, c.pos, <<"Parameters", c.param>>>>

(***************************************************************************)
(* impl TryFrom<&Command> for VecCmdData                                   *)
(***************************************************************************)
MoveParamInvalid_Mutant(param) == Len(param) < 2
MoveParamInvalid(param) == Len(param) # 2

CubicParamInvalid(param) == Len(param) % 6 # 0

\* param.chunks_exact(6), each chunk pushed as one CubicCurve
ChunksExact6(param) ==
    [j \in 1..(Len(param) \div 6) |->
        CmdCubicCurve(Complex(param[6 * (j - 1) + 1], param[6 * (j - 1) + 2]),
                      Complex(param[6 * (j - 1) + 3], param[6 * (j - 1) + 4]),
                      Complex(param[6 * (j - 1) + 5], param[6 * (j - 1) + 6]))]

TryFrom(c) ==
    IF c.kind = "Move" /\ c.pos = "Absolute" THEN
        IF MoveParamInvalid(c.param) THEN Err(InvalidParameter)
        ELSE Ok(<<CmdMove(Complex(c.param[1], c.param[2]))>>)
    ELSE IF c.kind = "CubicCurve" /\ c.pos = "Absolute" THEN
        IF CubicParamInvalid(c.param) THEN Err(InvalidParameter)
        ELSE Ok(ChunksExact6(c.param))
    ELSE IF c.kind = "Close" THEN Ok(<< >>)
    ELSE Err(UnrecognizedCommand(DebugFormat(c)))

(***************************************************************************)
(* parse_svg_into_proc: the event loop, the segment count, the closure     *)
(***************************************************************************)
\* One svg::parser::Event: a <path> tag with its "d" attribute (absent, or
\* present and parsed by Data::parse with or without success), or any other
\* event.
PathEvent(d) == [tag |-> "path", d |-> d]
OtherEvent == [tag |-> "other", d |-> None]
Attribute(parses, data) == [parses |-> parses, data |-> data]

\* for command in data.iter() { match command.try_into() { ... } }
RECURSIVE CollectCommands_Mutant(_, _)
CollectCommands_Mutant(cmd_vec, data) ==
    IF data = << >> THEN Some(cmd_vec)
    ELSE LET r == TryFrom(Head(data)) IN
         IF r.ok THEN CollectCommands_Mutant(cmd_vec \o r.data, Tail(data))
         ELSE CollectCommands_Mutant(cmd_vec, Tail(data))
RECURSIVE CollectCommands(_, _)
CollectCommands(cmd_vec, data) ==
    IF data = << >> THEN Some(cmd_vec)
    ELSE LET r == TryFrom(Head(data)) IN
         IF r.ok THEN CollectCommands(cmd_vec \o r.data, Tail(data))
         ELSE None

\* for event in svg::open(path, &mut content).unwrap() { match event { ... } }
RECURSIVE CollectEvents(_, _)
CollectEvents(cmd_vec, events) ==
    IF events = << >> THEN Some(cmd_vec)
    ELSE LET e == Head(events) IN
         IF e.tag = "path" THEN
             IF e.d = None THEN None
             ELSE IF ~Unwrap(e.d).parses THEN None
             ELSE LET r == CollectCommands(cmd_vec, Unwrap(e.d).data) IN
                  IF r = None THEN None
                  ELSE CollectEvents(Unwrap(r), Tail(events))
         ELSE CollectEvents(cmd_vec, Tail(events))

\* for i in &cmd_vec { if let CmdData::Move(..) = i {} else { segments_count += 1 } }
SegmentsCount_Mutant(cmd_vec) == Len(cmd_vec)
SegmentsCount(cmd_vec) ==
    Cardinality({i \in 1..Len(cmd_vec) : cmd_vec[i].cmd # "Move"})

ParseSvgIntoProc(events) ==
    LET r == CollectEvents(<< >>, events) IN
    IF r = None THEN None
    ELSE Some([cmd_vec |-> Unwrap(r), segments_count |-> SegmentsCount(Unwrap(r))])

\* cubic_bezier at t = pn/den; the result is a numerator pair over den^3.
CubicBezier(p0, p1, p2, p3, pn, den) ==
    LET inv_t == den - pn
        B(a0, a1, a2, a3) ==
            inv_t * inv_t * inv_t * a0 + 3 * inv_t * inv_t * pn * a1
                + 3 * inv_t * pn * pn * a2 + pn * pn * pn * a3
    IN  [re |-> B(p0.re, p1.re, p2.re, p3.re),
         im |-> B(p0.im, p1.im, p2.im, p3.im),
         den |-> den * den * den]

\* A Complex<f64> returned as it is, written over the same denominator.
Exactly(p, den) ==
    [re |-> p.re * den * den * den, im |-> p.im * den * den * den, den |-> den * den * den]

\* if cur_idx > idx { return ... }
ReachedSegment_Mutant(cur_idx, idx) == cur_idx >= idx
ReachedSegment(cur_idx, idx) == cur_idx > idx

\* cur_pos = *p3;
AdvanceCursor_Mutant(cur_pos, p3) == cur_pos
AdvanceCursor(cur_pos, p3) == p3

\* idx_prog as usize: truncation, saturating at 0 for a negative value
AsUsize_Mutant(n, d) == IF n < 0 THEN 0 ELSE (2 * n + d) \div (2 * d)
AsUsize(n, d) == IF n < 0 THEN 0 ELSE n \div d

\* The loop of the closure. The result holds the returned point and, for the
\* properties of the walk, the 1-based number of the CubicCurve that was
\* evaluated (0 when the loop ran out and the cursor was returned), the cursor
\* used as p0 and the local parameter.
RECURSIVE Walk(_, _, _, _, _, _)
Walk(cmds, cur_pos, cur_idx, idx, pn, den) ==
    IF cmds = << >> THEN
        [point |-> Exactly(cur_pos, den), curve |-> 0, p0 |-> cur_pos,
         idx |-> idx, prog |-> <<pn, den>>]
    ELSE LET c == Head(cmds) IN
         IF c.cmd = "Move" THEN Walk(Tail(cmds), c.p1, cur_idx, idx, pn, den)
         ELSE IF ReachedSegment(cur_idx + 1, idx) THEN
             [point |-> CubicBezier(cur_pos, c.p1, c.p2, c.p3, pn, den),
              curve |-> cur_idx + 1, p0 |-> cur_pos,
              idx |-> idx, prog |-> <<pn, den>>]
         ELSE Walk(Tail(cmds), AdvanceCursor(cur_pos, c.p3), cur_idx + 1, idx, pn, den)

\* let func = move |t| { ... }, for t = t.num / t.den
Func(p, t) ==
    LET idx_prog == t.num * p.segments_count
        idx == AsUsize(idx_prog, t.den)
        prog == idx_prog - idx * t.den
    IN  Walk(p.cmd_vec, Complex(0, 0), 0, idx, prog, t.den)

(***************************************************************************)
(* util::math: convert_to_fourier_series and FourierSeriesDesc::as_fn      *)
(***************************************************************************)
\* The value pushed for the index i:
\*   integrate_v2(0..=1, |t| func(t) * exp(-t * i * 2.0 * PI * j))
\* kept as the integral's two ingredients, the integrand's func and its i.
Coefficient(func, i) == [func |-> func, k |-> i]

\* for i in lo..=hi: the values the loop variable takes, in order
RangeInclusive_Mutant(lo, hi) == [j \in 1..(hi - lo) |-> lo + j - 1]
RangeInclusive(lo, hi) == [j \in 1..(hi - lo + 1) |-> lo + j - 1]

\* let half_range = ((n - 1) / 2) as isize;  (convert_to_fourier_series)
HalfRange(n) == (n - 1) \div 2

\* The outcome of a call: a panic (the assertion failed), or the descriptor.
Panic == [panicked |-> TRUE, coefficients |-> << >>]
FourierSeriesDesc(coefficient_vec) == [panicked |-> FALSE, coefficients |-> coefficient_vec]

ConvertToFourierSeries(func, n) ==
    IF ~(n % 2 # 0) THEN Panic
    ELSE LET half_range == HalfRange(n)
             is == RangeInclusive(-half_range, half_range)
         IN  FourierSeriesDesc([j \in 1..Len(is) |-> Coefficient(func, is[j])])

\* let half_range = ((n - 1) / 2) as isize;  (as_fn)
AsFnHalfRange_Mutant(n) == (n + 1) \div 2
AsFnHalfRange(n) == (n - 1) \div 2

\* The closure as_fn returns, at t: the terms c * exp(t * i * 2.0 * PI * j) that
\* are summed, in storage order, each kept as its c, its i and its t.
AsFn(coefficients, t) ==
    LET n == Len(coefficients)
        half_range == AsFnHalfRange(n)
    IN  [e \in 1..n |-> [c |-> coefficients[e], k |-> (e - 1) - half_range, t |-> t]]

(***************************************************************************)
(* util::math: integrate (the fixed rule) and integrate_v2 (adaptive)      *)
(*                                                                         *)
(* Values of the integrand's type Out are complex numbers with integer     *)
(* parts, in units of TOL. Interval endpoints are integers, in units of    *)
(* 1 / 2^(MaxDepth+1), so that every midpoint taken is exact.              *)
(***************************************************************************)
\* inner(range, func, last_res, 16)
MaxDepth == 16
\* delta <= 15.0 * TOL
TolFactor == 15

Scale == 2 ^ (MaxDepth + 1)

CAdd(x, y) == Complex(x.re + y.re, x.im + y.im)
CSub(x, y) == Complex(x.re - y.re, x.im - y.im)
CScale(x, a) == Complex(x.re * a, x.im * a)

\* impl SqrAbs for Complex<T>
SqrAbs(x) == x.re * x.re + x.im * x.im

\* integrate(range, func): the 16-point rule's estimate on the range. The
\* rule samples func at 16 points inside the range, and the points of two
\* different ranges differ, so an integrand is given here by the estimates
\* the rule yields for it: its constant part c is integrated exactly, and
\* each of its spikes adds to the estimate on every interval that holds it an
\* amount that grows by the spike's magnitude with each halving of the
\* interval, so that halving never settles. A mild spike has magnitude
\* 15 * TOL, a sharp one 20 * TOL.
MildSpike == Complex(9, 12)
SharpSpike == Complex(12, 16)
Halvings(width, unit) == Cardinality({j \in 1..(MaxDepth + 1) : width <= unit \div (2 ^ j)})
Inside(points, r) == Cardinality({x \in points : r[1] <= x /\ x <= r[2]})
Integrate(r, f) ==
    LET grown == Halvings(r[2] - r[1], f.unit) + 1
    IN  CAdd(CScale(f.c, r[2] - r[1]),
             CAdd(CScale(MildSpike, Inside(f.mild, r) * grown),
                  CScale(SharpSpike, Inside(f.sharp, r) * grown)))

\* let middle = (start.clone() + end.clone()) / in_two;
Middle_Mutant(start, end) == (end - start) \div 2
Middle(start, end) == (start + end) \div 2

\* delta.sqr_abs().sqrt() <= 15.0 * TOL
WithinTolerance(delta) == SqrAbs(delta) <= TolFactor * TolFactor

\* avail_depth == 0
DepthExhausted_Mutant(avail_depth) == FALSE
DepthExhausted(avail_depth) == avail_depth = 0

\* the value of the if branch: last_res
AcceptedValue_Mutant(last_res, res_l, res_r) == CAdd(res_l, res_r)
AcceptedValue(last_res, res_l, res_r) == last_res

\* One call of inner in progress: its arguments, the estimates of its two
\* halves, how far it has come ("enter": not yet run; "left", "right": waiting
\* for that recursive call) and the value the left call returned.
Frame(r, last_res, avail_depth) ==
    [range |-> r, last_res |-> last_res, avail_depth |-> avail_depth,
     at |-> "enter", ret_l |-> Complex(0, 0)]

\* A call of inner that has ended: its arguments and the value it returned.
Returned(fr, v, leaf) ==
    [range |-> fr.range, last_res |-> fr.last_res, avail_depth |-> fr.avail_depth,
     value |-> v, leaf |-> leaf]

Top == stack[Len(stack)]
Pop(st) == SubSeq(st, 1, Len(st) - 1)
RangeL(fr) == <<fr.range[1], Middle(fr.range[1], fr.range[2])>>
RangeR(fr) == <<Middle(fr.range[1], fr.range[2]), fr.range[2]>>

(***************************************************************************)
(* ui::window: FourierAnimationWindow, SvgPreviewWindow, and MyApp         *)
(***************************************************************************)
\* impl Default for MyApp: fourier_series_n
DefaultN == 11
\* egui::Slider::new(fourier_series_n, 9..=501).clamp_to_range(true)
SliderMin == 9
SliderMax == 501

\* WindowDesc<T>::default() around the window's own default: closed, nothing
\* set, not playing, t = 0. content is series_desc, respectively svg_fn.
DefaultWindow ==
    [is_open |-> FALSE, content |-> None, animate_start_t |-> None, t |-> [num |-> 0, den |-> 1]]

\* FourierAnimationWindow::reset, SvgPreviewWindow::reset
Reset_Mutant(w) == [w EXCEPT !.animate_start_t = None]
Reset(w) == [w EXCEPT !.content = None, !.animate_start_t = None, !.t = [num |-> 0, den |-> 1]]
\* FourierAnimationWindow::set, SvgPreviewWindow::set
Set(w, content) == [w EXCEPT !.content = content]
\* FourierAnimationWindow::play, SvgPreviewWindow::play
Play(w) == [w EXCEPT !.animate_start_t = Some("Instant")]
\* FourierAnimationWindow::is_playing, SvgPreviewWindow::is_playing
IsPlaying(w) == IsSome(w.animate_start_t)

\* The comparator handed to sort_by in FourierAnimationWindow::ui
Abs(i) == IF i < 0 THEN -i ELSE i
Compare_Mutant(ida, idb) ==
    IF Abs(ida) < Abs(idb) THEN "Less"
    ELSE IF Abs(ida) > Abs(idb) THEN "Greater"
    ELSE IF ida < idb THEN "Less"
    ELSE "Equal"
Compare(ida, idb) ==
    IF Abs(ida) < Abs(idb) THEN "Less"
    ELSE IF Abs(ida) > Abs(idb) THEN "Greater"
    ELSE IF ida > idb THEN "Less"
    ELSE "Equal"

\* slice::sort_by: a stable sort that moves an element before another only
\* when compare(element, other) is Less. Each element is taken in turn and
\* moved left past the elements it is Less than.
RECURSIVE InsertSorted(_, _)
InsertSorted(sorted, x) ==
    IF sorted = << >> THEN <<x>>
    ELSE IF Compare(x[1], sorted[Len(sorted)][1]) = "Less"
         THEN Append(InsertSorted(SubSeq(sorted, 1, Len(sorted) - 1), x), sorted[Len(sorted)])
         ELSE Append(sorted, x)

RECURSIVE SortBy(_)
SortBy(v) ==
    IF v = << >> THEN << >>
    ELSE InsertSorted(SortBy(SubSeq(v, 1, Len(v) - 1)), v[Len(v)])

\* FourierAnimationWindow::ui: the (k, c_k) pairs in the order they are summed,
\* and arrows_pre_sum, each partial sum kept as the terms c * exp(local_t * k *
\* 2.0 * PI * j) it adds up, in order.
Arrows(coefficients_vec, local_t) ==
    LET coefficients_n == Len(coefficients_vec)
        half_range == (coefficients_n - 1) \div 2
        coefficients ==
            SortBy([a \in 1..coefficients_n |-> <<(a - 1) - half_range, coefficients_vec[a]>>])
    IN  [coefficients |-> coefficients,
         arrows_pre_sum |->
            [e \in 1..coefficients_n |->
                [j \in 1..e |-> [c |-> coefficients[j][2], k |-> coefficients[j][1],
                                 t |-> local_t]]]]

\* The slider writes the chosen value back, clamped to its range.
Clamp(v) == IF v < SliderMin THEN SliderMin ELSE IF v > SliderMax THEN SliderMax ELSE v

\* if *fourier_series_n % 2 == 0 { *fourier_series_n += 1; }
CoerceOdd_Mutant(n) == n
CoerceOdd(n) == IF n % 2 = 0 THEN n + 1 ELSE n

\* path.map(|p| p.extension()).flatten().map_or(false, |s| s == "svg")
IsSvgPath(path) == IsSome(path) /\ Unwrap(path).extension = "svg"

(***************************************************************************)
(* Inputs                                                                  *)
(***************************************************************************)
\* Every command kind and position with every parameter count up to MaxParams.
AnyCommands ==
    {Command(k, p, Params(len, 0)) : k \in Kinds, p \in Positions, len \in 0..MaxParams}
        \cup {Close}

\* The command shapes files are made of: valid and invalid ones.
FileShapes ==
    { <<"Move", "Absolute", 2>>, <<"CubicCurve", "Absolute", 0>>,
      <<"CubicCurve", "Absolute", 6>>, <<"CubicCurve", "Absolute", 7>>,
      <<"CubicCurve", "Absolute", 12>>, <<"EllipticalArc", "Absolute", 7>>,
      <<"Close", "Absolute", 0>> }

\* The i-th command of a file takes its numbers from a range of its own.
ShapeCommand(s, i) ==
    IF s[1] = "Close" THEN Close
    ELSE Command(s[1], s[2], Params(s[3], (MaxParams + 1) * i))

CmdSeqOf(ss) == [i \in 1..Len(ss) |-> ShapeCommand(ss[i], i)]

\* How the commands are laid out in the file: in one <path>, in two with
\* another tag between them, or beside a <path> whose "d" is absent or
\* does not parse.
Layouts == {"one", "two", "noD_last", "badD_first"}

FileOf(cmds, layout) ==
    LET whole == PathEvent(Some(Attribute(TRUE, cmds)))
        h == Len(cmds) \div 2
    IN  CASE layout = "one" -> <<whole>>
          [] layout = "two" ->
                <<PathEvent(Some(Attribute(TRUE, SubSeq(cmds, 1, h)))), OtherEvent,
                  PathEvent(Some(Attribute(TRUE, SubSeq(cmds, h + 1, Len(cmds)))))>>
          [] layout = "noD_last" -> <<whole, PathEvent(None)>>
          [] layout = "badD_first" -> <<PathEvent(Some(Attribute(FALSE, << >>))), whole>>

\* The curve parameter: every num/den with den <= MaxDen from -1/den to (den+1)/den.
TValues == UNION { { [num |-> a, den |-> d] : a \in -1..(d + 1) } : d \in 1..MaxDen }

\* The functions handed to the analyzer: the path functions of two files.
SampleShapes ==
    { << <<"Move", "Absolute", 2>>, <<"CubicCurve", "Absolute", 6>>,
         <<"CubicCurve", "Absolute", 6>>, <<"Close", "Absolute", 0>> >>,
      << <<"CubicCurve", "Absolute", 12>> >> }
SampleFuncs == {Unwrap(ParseSvgIntoProc(FileOf(CmdSeqOf(ss), "one"))) : ss \in SampleShapes}

\* The files that can be dropped on the window, and what svg::open reads from
\* each: a valid drawing, a drawing with an unsupported command, an image.
Path(stem, extension) == [stem |-> stem, extension |-> extension]
GoodShapes ==
    << <<"Move", "Absolute", 2>>, <<"CubicCurve", "Absolute", 6>>,
       <<"CubicCurve", "Absolute", 6>>, <<"Close", "Absolute", 0>> >>
BadShapes ==
    << <<"Move", "Absolute", 2>>, <<"CubicCurve", "Absolute", 6>>,
       <<"EllipticalArc", "Absolute", 7>> >>
DroppedFiles ==
    {[path |-> Some(Path("good", "svg"))], [path |-> Some(Path("bad", "svg"))],
     [path |-> Some(Path("image", "png"))], [path |-> None]}
SvgOpen(path) ==
    IF path.stem = "good" THEN FileOf(CmdSeqOf(GoodShapes), "one")
    ELSE FileOf(CmdSeqOf(BadShapes), "one")

\* The values the user sets the slider to: around both ends of its range.
SliderInputs ==
    ((SliderMin - 1)..(SliderMin + SliderSpan)) \cup ((SliderMax - SliderSpan)..(SliderMax + 1))

\* The progress a window shows when it is stopped by hand.
WindowTs == {[num |-> 0, den |-> 1], [num |-> 1, den |-> 2]}

\* The ranges integrated over: [0, 1], as the analyzer does, and [-1, 1].
Ranges == {<<0, Scale>>, <<-Scale, Scale>>}

\* Where an integrand may have a spike: at either end of the range, at its
\* middle and at a third of it.
SpikePoints(r) == {r[1], r[1] + (r[2] - r[1]) \div 3, Middle(r[1], r[2]), r[2]}

\* The integrands: up to MaxSpikes spikes, each mild or sharp.
Integrands(r) ==
    {[c |-> Complex(1, -2), mild |-> m, sharp |-> s, unit |-> r[2] - r[1]] :
        m \in SUBSET SpikePoints(r),
        s \in {x \in SUBSET SpikePoints(r) : Cardinality(x) <= MaxSpikes}}

(***************************************************************************)
(* Specification of the conversion of one command                          *)
(***************************************************************************)
TryFromIdle == command = Close /\ converted = None
CurveIdle ==
    /\ svg_events = << >> /\ pc = "idle" /\ proc = None /\ t_arg = None /\ value = None
FourierIdle == func_arg = None /\ n_arg = 0 /\ desc = None /\ synth = None /\ arrows = None
AppIdle ==
    /\ fourier_series_n = 0 /\ disp_path = None /\ animation_window = None
    /\ svg_preview_window = None /\ last_call_n = None /\ crashed = FALSE
IntegrateIdle ==
    /\ range = << >> /\ integrand = None /\ stack = << >> /\ ret = None
    /\ returns = << >> /\ result = None

InitTryFrom ==
    /\ command \in AnyCommands
    /\ converted = None
    /\ CurveIdle /\ FourierIdle /\ AppIdle /\ IntegrateIdle

Convert ==
    /\ converted = None
    /\ converted' = Some(TryFrom(command))
    /\ UNCHANGED <<command, curveVars, fourierVars, appVars, integrateVars>>

NextTryFrom == Convert

SpecTryFrom == InitTryFrom /\ [][NextTryFrom]_vars

(***************************************************************************)
(* Specification of parse_svg_into_proc and of the function it returns     *)
(***************************************************************************)
InitCurve ==
    /\ \E n \in 0..MaxCmds : \E ss \in [1..n -> FileShapes] : \E layout \in Layouts :
            svg_events = FileOf(CmdSeqOf(ss), layout)
    /\ pc = "start"
    /\ proc = None
    /\ t_arg = None
    /\ value = None
    /\ TryFromIdle /\ FourierIdle /\ AppIdle /\ IntegrateIdle

Parse ==
    /\ pc = "start"
    /\ proc' = ParseSvgIntoProc(svg_events)
    /\ pc' = "parsed"
    /\ UNCHANGED <<svg_events, t_arg, value, tryFromVars, fourierVars, appVars, integrateVars>>

Evaluate ==
    /\ pc = "parsed"
    /\ IsSome(proc)
    /\ \E t \in TValues :
        /\ t_arg' = Some(t)
        /\ value' = Some(Func(Unwrap(proc), t))
    /\ pc' = "evaluated"
    /\ UNCHANGED <<svg_events, proc, tryFromVars, fourierVars, appVars, integrateVars>>

NextCurve == Parse \/ Evaluate

SpecCurve == InitCurve /\ [][NextCurve]_vars

(***************************************************************************)
(* Specification of the analyzer and the synthesizer                       *)
(***************************************************************************)
InitFourier ==
    /\ func_arg \in {Some(f) : f \in SampleFuncs}
    /\ n_arg \in 0..MaxN
    /\ desc = None
    /\ synth = None
    /\ arrows = None
    /\ TryFromIdle /\ CurveIdle /\ AppIdle /\ IntegrateIdle

Analyze ==
    /\ desc = None
    /\ desc' = Some(ConvertToFourierSeries(Unwrap(func_arg), n_arg))
    /\ UNCHANGED <<func_arg, n_arg, synth, arrows,
                   tryFromVars, curveVars, appVars, integrateVars>>

Synthesize ==
    /\ IsSome(desc) /\ ~Unwrap(desc).panicked
    /\ synth = None
    /\ \E t \in TValues : synth' = Some(AsFn(Unwrap(desc).coefficients, t))
    /\ UNCHANGED <<func_arg, n_arg, desc, arrows,
                   tryFromVars, curveVars, appVars, integrateVars>>

\* FourierAnimationWindow::ui with a descriptor set, at some local_t
ShowArrows ==
    /\ IsSome(desc) /\ ~Unwrap(desc).panicked
    /\ arrows = None
    /\ \E local_t \in TValues : arrows' = Some(Arrows(Unwrap(desc).coefficients, local_t))
    /\ UNCHANGED <<func_arg, n_arg, desc, synth,
                   tryFromVars, curveVars, appVars, integrateVars>>

NextFourier == Analyze \/ Synthesize \/ ShowArrows

SpecFourier == InitFourier /\ [][NextFourier]_vars

(***************************************************************************)
(* Specification of the application: MyApp::update, one input per frame    *)
(***************************************************************************)
InitApp ==
    /\ fourier_series_n = DefaultN
    /\ disp_path = None
    /\ animation_window = DefaultWindow
    /\ svg_preview_window = DefaultWindow
    /\ last_call_n = None
    /\ crashed = FALSE
    /\ TryFromIdle /\ CurveIdle /\ FourierIdle /\ IntegrateIdle

\* if let [file, ..] = &ctx.input().raw.dropped_files[..] { ... }
DropFile ==
    /\ ~crashed
    /\ \E file \in DroppedFiles :
        disp_path' = IF IsSvgPath(file.path) THEN file.path ELSE disp_path
    /\ UNCHANGED <<fourier_series_n, animation_window, svg_preview_window, last_call_n,
                   crashed, tryFromVars, curveVars, fourierVars, integrateVars>>

\* ui.add(slider_n)
MoveSlider ==
    /\ ~crashed
    /\ \E v \in SliderInputs : fourier_series_n' = Clamp(v)
    /\ UNCHANGED <<disp_path, animation_window, svg_preview_window, last_call_n,
                   crashed, tryFromVars, curveVars, fourierVars, integrateVars>>

\* if ui.button("Preview SVG").clicked() { ... }
ClickPreview ==
    /\ ~crashed
    /\ IsSome(disp_path)
    /\ svg_preview_window' =
            Play(Set([Reset(svg_preview_window) EXCEPT !.is_open = TRUE],
                     ParseSvgIntoProc(SvgOpen(Unwrap(disp_path)))))
    /\ UNCHANGED <<fourier_series_n, disp_path, animation_window, last_call_n,
                   crashed, tryFromVars, curveVars, fourierVars, integrateVars>>

\* if ui.button("Calculate & Show").clicked() { ... }
ClickCalculate ==
    /\ ~crashed
    /\ IsSome(disp_path)
    /\ LET n == CoerceOdd(fourier_series_n)
           opened == [Reset(animation_window) EXCEPT !.is_open = TRUE]
           p == ParseSvgIntoProc(SvgOpen(Unwrap(disp_path)))
       IN  /\ fourier_series_n' = n
           /\ IF p = None THEN
                  /\ animation_window' = Play(Set(opened, None))
                  /\ UNCHANGED <<last_call_n, crashed, integrateVars>>
              ELSE LET d == ConvertToFourierSeries(Unwrap(p), n) IN
                  /\ last_call_n' = Some(n)
                  /\ IF d.panicked THEN
                         /\ crashed' = TRUE
                         /\ animation_window' = opened
                     ELSE
                         /\ crashed' = FALSE
                         /\ animation_window' = Play(Set(opened, Some(d.coefficients)))
    /\ UNCHANGED <<disp_path, svg_preview_window,
                   tryFromVars, curveVars, fourierVars, integrateVars>>

\* Window::show with .open(open): the window's close button
CloseAnimation ==
    /\ ~crashed
    /\ animation_window.is_open
    /\ animation_window' = [animation_window EXCEPT !.is_open = FALSE]
    /\ UNCHANGED <<fourier_series_n, disp_path, svg_preview_window, last_call_n,
                   crashed, tryFromVars, curveVars, fourierVars, integrateVars>>

\* FourierAnimationWindow::ui: the play / pause button, and the slider of t,
\* both shown only while a descriptor is set
StopOrPlay(w) ==
    IF IsPlaying(w)
    THEN {[w EXCEPT !.animate_start_t = None, !.t = local_t] : local_t \in WindowTs}
    ELSE {Play(w)} \cup {[w EXCEPT !.t = local_t] : local_t \in WindowTs}

AnimationControls ==
    /\ ~crashed
    /\ animation_window.is_open
    /\ IsSome(animation_window.content)
    /\ animation_window' \in StopOrPlay(animation_window)
    /\ UNCHANGED <<fourier_series_n, disp_path, svg_preview_window, last_call_n,
                   crashed, tryFromVars, curveVars, fourierVars, integrateVars>>

ClosePreview ==
    /\ ~crashed
    /\ svg_preview_window.is_open
    /\ svg_preview_window' = [svg_preview_window EXCEPT !.is_open = FALSE]
    /\ UNCHANGED <<fourier_series_n, disp_path, animation_window, last_call_n,
                   crashed, tryFromVars, curveVars, fourierVars, integrateVars>>

\* SvgPreviewWindow::ui: the same controls, shown only while a function is set
PreviewControls ==
    /\ ~crashed
    /\ svg_preview_window.is_open
    /\ IsSome(svg_preview_window.content)
    /\ svg_preview_window' \in StopOrPlay(svg_preview_window)
    /\ UNCHANGED <<fourier_series_n, disp_path, animation_window, last_call_n,
                   crashed, tryFromVars, curveVars, fourierVars, integrateVars>>

NextApp ==
    \/ DropFile \/ MoveSlider \/ ClickPreview \/ ClickCalculate
    \/ CloseAnimation \/ AnimationControls \/ ClosePreview \/ PreviewControls

SpecApp == InitApp /\ [][NextApp]_vars

(***************************************************************************)
(* Specification of integrate_v2: one step per call and per return of      *)
(* inner                                                                   *)
(***************************************************************************)
InitIntegrate ==
    /\ range \in Ranges
    /\ integrand \in {Some(f) : f \in {g \in Integrands(range) :
                            Cardinality(g.mild) + Cardinality(g.sharp) <= MaxSpikes}}
    /\ stack = << >>
    /\ ret = None
    /\ returns = << >>
    /\ result = None
    /\ TryFromIdle /\ CurveIdle /\ FourierIdle /\ AppIdle

\* let last_res = integrate(range.clone(), func.clone());
\* inner(range, func, last_res, 16)
CallInner ==
    /\ stack = << >> /\ ret = None /\ result = None
    /\ stack' = <<Frame(range, Integrate(range, Unwrap(integrand)), MaxDepth)>>
    /\ UNCHANGED <<range, integrand, ret, returns, result,
                   tryFromVars, curveVars, fourierVars, appVars>>

\* inner, up to its if: the branch taken returns, or calls inner on range_l.
\* res_l and res_r are computed once, as in the code.
EnterInner ==
    /\ stack # << >> /\ Top.at = "enter"
    /\ \E res_l \in {Integrate(RangeL(Top), Unwrap(integrand))},
          res_r \in {Integrate(RangeR(Top), Unwrap(integrand))} :
        LET fr == Top
            delta == CSub(CAdd(res_l, res_r), fr.last_res)
        IN  IF WithinTolerance(delta) \/ DepthExhausted(fr.avail_depth) THEN
                LET v == AcceptedValue(fr.last_res, res_l, res_r) IN
                /\ stack' = Pop(stack)
                /\ ret' = Some(v)
                /\ returns' = Append(returns, Returned(fr, v, TRUE))
            ELSE
                /\ stack' = Append([stack EXCEPT ![Len(stack)].at = "left"],
                                   Frame(RangeL(fr), res_l, fr.avail_depth - 1))
                /\ UNCHANGED <<ret, returns>>
    /\ UNCHANGED <<range, integrand, result, tryFromVars, curveVars, fourierVars, appVars>>

\* inner(range_l, ...) has returned: inner(range_r, ...) is called
LeftReturned ==
    /\ stack # << >> /\ Top.at = "left" /\ IsSome(ret)
    /\ LET fr == Top
           res_r == Integrate(RangeR(fr), Unwrap(integrand))
       IN  stack' = Append([stack EXCEPT ![Len(stack)].at = "right",
                                         ![Len(stack)].ret_l = Unwrap(ret)],
                           Frame(RangeR(fr), res_r, fr.avail_depth - 1))
    /\ ret' = None
    /\ UNCHANGED <<range, integrand, returns, result,
                   tryFromVars, curveVars, fourierVars, appVars>>

\* inner(range_r, ...) has returned: the sum of both is returned
RightReturned ==
    /\ stack # << >> /\ Top.at = "right" /\ IsSome(ret)
    /\ LET v == CAdd(Top.ret_l, Unwrap(ret)) IN
        /\ ret' = Some(v)
        /\ returns' = Append(returns, Returned(Top, v, FALSE))
    /\ stack' = Pop(stack)
    /\ UNCHANGED <<range, integrand, result, tryFromVars, curveVars, fourierVars, appVars>>

\* the outermost inner has returned: integrate_v2 returns its value
ReturnResult ==
    /\ stack = << >> /\ IsSome(ret) /\ result = None
    /\ result' = ret
    /\ ret' = None
    /\ UNCHANGED <<range, integrand, stack, returns,
                   tryFromVars, curveVars, fourierVars, appVars>>

NextIntegrate == CallInner \/ EnterInner \/ LeftReturned \/ RightReturned \/ ReturnResult

SpecIntegrate == InitIntegrate /\ [][NextIntegrate]_vars

\* integrate_v2 is one sequential computation: a call that can take a step
\* takes it.
SpecIntegrateFair == SpecIntegrate /\ WF_vars(NextIntegrate)

(***************************************************************************)
(* The command sequence of a file and of a proc, for the properties        *)
(***************************************************************************)
\* The svg commands of all <path> tags of a file, in document order.
RECURSIVE FileCommands(_)
FileCommands(events) ==
    IF events = << >> THEN << >>
    ELSE LET e == Head(events) IN
         (IF e.tag = "path" /\ e.d # None /\ Unwrap(e.d).parses
          THEN Unwrap(e.d).data ELSE << >>) \o FileCommands(Tail(events))

\* The number of cubic segments the svg commands encode: a CubicCurve with
\* 6*m parameters encodes m, every other command none.
RECURSIVE CubicSegments(_)
CubicSegments(cmds) ==
    IF cmds = << >> THEN 0
    ELSE (IF Head(cmds).kind = "CubicCurve" THEN Len(Head(cmds).param) \div 6 ELSE 0)
            + CubicSegments(Tail(cmds))

IsCubic(c) == c.cmd = "CubicCurve"
Cubics(cmd_vec) == SelectSeq(cmd_vec, IsCubic)

\* The place in cmd_vec of the k-th CubicCurve (1-based).
CubicIndex(cmd_vec, k) ==
    CHOOSE j \in 1..Len(cmd_vec) :
        /\ IsCubic(cmd_vec[j])
        /\ Cardinality({i \in 1..j : IsCubic(cmd_vec[i])}) = k

\* The point a command leaves the cursor at.
EndPoint(c) == IF c.cmd = "Move" THEN c.p1 ELSE c.p3

\* The cursor after the first j commands; the origin before any command.
CursorAfter(cmd_vec, j) == IF j = 0 THEN Complex(0, 0) ELSE EndPoint(cmd_vec[j])

Parsed == pc # "start" /\ pc # "idle" /\ IsSome(proc)
Evaluated == pc = "evaluated"
TheProc == Unwrap(proc)
TheT == Unwrap(t_arg)
TheValue == Unwrap(value)

(***************************************************************************)
(* C4. For every command sequence that passes validation, segments_count   *)
(* is the total number of cubic segments: a CubicCurve command with 6*m    *)
(* parameters counts m, Move and Close count 0.                            *)
(***************************************************************************)
C4_SegmentCount ==
    Parsed => TheProc.segments_count = CubicSegments(FileCommands(svg_events))

\* [MoveTo, CubicCurveTo, CubicCurveTo, Close] yields segments_count = 2, and
\* so does a single CubicCurveTo with 12 parameters.
C4_Witness ==
    /\ Parsed
    /\ Len(svg_events) = 1
    /\ LET cmds == FileCommands(svg_events) IN
        /\ Len(cmds) = 4
        /\ cmds[1].kind = "Move" /\ cmds[4].kind = "Close"
        /\ cmds[2].kind = "CubicCurve" /\ Len(cmds[2].param) = 6
        /\ cmds[3].kind = "CubicCurve" /\ Len(cmds[3].param) = 6
    /\ TheProc.segments_count = 2

(***************************************************************************)
(* C5 as stated: the path function is continuous at the segment            *)
(* boundaries: with N = segments_count, its value at t = 0 is the position *)
(* set by the most recent Move before the first curve, and for every k     *)
(* with 1 <= k < N its value at t = k/N is the endpoint p3 of the k-th     *)
(* cubic.                                                                  *)
(***************************************************************************)
C5_Continuity ==
    Evaluated =>
        LET cv == TheProc.cmd_vec
            N == TheProc.segments_count
            first == CubicIndex(cv, 1)
        IN  /\ (TheT.num = 0 /\ N >= 1 /\ first > 1) =>
                    /\ cv[first - 1].cmd = "Move"
                    /\ TheValue.point = Exactly(cv[first - 1].p1, TheT.den)
            /\ \A k \in 1..(N - 1) :
                    TheT.num * N = k * TheT.den =>
                        TheValue.point = Exactly(Cubics(cv)[k].p3, TheT.den)

(***************************************************************************)
(* C5 amended: with N = segments_count, the value at t = 0 is the position *)
(* set by the most recent Move before the first curve, and for every k     *)
(* with 1 <= k < N the value at t = k/N is the endpoint p3 of the k-th     *)
(* cubic when no Move stands between the k-th and the (k+1)-th cubic, and  *)
(* the position set by the most recent such Move when one does.            *)
(***************************************************************************)
C5_ContinuityBetweenMoves ==
    Evaluated =>
        LET cv == TheProc.cmd_vec
            N == TheProc.segments_count
            first == CubicIndex(cv, 1)
        IN  /\ (TheT.num = 0 /\ N >= 1 /\ first > 1) =>
                    /\ cv[first - 1].cmd = "Move"
                    /\ TheValue.point = Exactly(cv[first - 1].p1, TheT.den)
            /\ \A k \in 1..(N - 1) :
                    TheT.num * N = k * TheT.den =>
                        LET this == CubicIndex(cv, k)
                            next == CubicIndex(cv, k + 1)
                        IN  IF next = this + 1
                            THEN TheValue.point = Exactly(Cubics(cv)[k].p3, TheT.den)
                            ELSE /\ cv[next - 1].cmd = "Move"
                                 /\ TheValue.point = Exactly(cv[next - 1].p1, TheT.den)

\* At t = 1/2 with N = 2 the function returns the first cubic's endpoint.
C5_Witness ==
    /\ Evaluated
    /\ TheProc.segments_count = 2
    /\ Len(TheProc.cmd_vec) = 3
    /\ TheProc.cmd_vec[1].cmd = "Move"
    /\ TheT = [num |-> 1, den |-> 2]
    /\ TheValue.point = Exactly(TheProc.cmd_vec[2].p3, 2)
    /\ TheValue.point # Exactly(TheProc.cmd_vec[3].p3, 2)

(***************************************************************************)
(* C6. Evaluating the path function falls back to the cursor: for t = 1,   *)
(* and for any t with floor(t * segments_count) >= segments_count          *)
(* (segments_count = 0 included), it returns the cursor reached after all  *)
(* commands; when the last command is a CubicCurve that is its p3.         *)
(***************************************************************************)
C6_Fallback ==
    Evaluated =>
        LET cv == TheProc.cmd_vec
            N == TheProc.segments_count
        IN  (TheT.num * N >= N * TheT.den \/ N = 0) =>
                /\ TheValue.point = Exactly(CursorAfter(cv, Len(cv)), TheT.den)
                /\ (cv # << >> /\ IsCubic(cv[Len(cv)])) =>
                        TheValue.point = Exactly(cv[Len(cv)].p3, TheT.den)

\* t = 1 on a path of two cubics returns the second cubic's endpoint.
C6_Witness ==
    /\ Evaluated
    /\ TheProc.segments_count = 2
    /\ Len(TheProc.cmd_vec) = 3
    /\ TheProc.cmd_vec[1].cmd = "Move"
    /\ TheT = [num |-> 1, den |-> 1]
    /\ TheValue.point = Exactly(TheProc.cmd_vec[3].p3, 1)
    /\ TheValue.curve = 0

C8_PositiveMultipleOf6 ==
    (IsSome(converted) /\ command.kind = "CubicCurve" /\ Unwrap(converted).ok) =>
        (Len(command.param) > 0 /\ Len(command.param) % 6 = 0)

(***************************************************************************)
(* C9. Any validation error aborts the whole translation: if any command   *)
(* of the file fails validation, parse_svg_into_proc returns None, and a   *)
(* function, when one is produced, is built from all the commands of the   *)
(* file and never from a valid prefix.                                     *)
(***************************************************************************)
C9_AbortOnError ==
    pc \in {"parsed", "evaluated"} =>
        LET cmds == FileCommands(svg_events) IN
        /\ (\E i \in 1..Len(cmds) : ~TryFrom(cmds[i]).ok) => proc = None
        /\ IsSome(proc) =>
                /\ \A i \in 1..Len(cmds) : TryFrom(cmds[i]).ok
                /\ Len(TheProc.cmd_vec) = CubicSegments(cmds)
                        + Cardinality({i \in 1..Len(cmds) : cmds[i].kind = "Move"})

\* The last command of the second <path> is invalid, after three valid ones.
C9_Witness ==
    /\ pc = "parsed"
    /\ proc = None
    /\ Len(svg_events) = 3
    /\ LET cmds == FileCommands(svg_events) IN
        /\ Len(cmds) = 4
        /\ \A i \in 1..3 : TryFrom(cmds[i]).ok
        /\ cmds[2].kind = "CubicCurve" /\ Len(cmds[2].param) = 6
        /\ ~TryFrom(cmds[4]).ok

(***************************************************************************)
(* C10 as stated: the curve that is evaluated is the idx-th CubicCurve     *)
(* encountered, counted from 1, where idx = floor(t * segments_count).     *)
(***************************************************************************)
C10_IdxthCurve ==
    (Evaluated /\ TheT.num >= 0 /\ TheValue.curve # 0) =>
        TheValue.curve = (TheT.num * TheProc.segments_count) \div TheT.den

(***************************************************************************)
(* C10 amended: for t >= 0 with idx = floor(t * segments_count) and        *)
(* local_t = t * segments_count - idx, the curve that is evaluated is the  *)
(* (idx+1)-th CubicCurve encountered, counted from 1 (none when            *)
(* idx >= segments_count); it is evaluated at local_t with the cursor left *)
(* by the command before it as p0; Move commands overwrite the cursor and  *)
(* consume no index.                                                       *)
(***************************************************************************)
C10_SegmentSelection ==
    (Evaluated /\ TheT.num >= 0) =>
        LET cv == TheProc.cmd_vec
            N == TheProc.segments_count
            idx == (TheT.num * N) \div TheT.den
            pn == TheT.num * N - idx * TheT.den
        IN  IF idx >= N THEN TheValue.curve = 0
            ELSE LET j == CubicIndex(cv, idx + 1) IN
                 /\ TheValue.curve = idx + 1
                 /\ TheValue.prog = <<pn, TheT.den>>
                 /\ TheValue.p0 = CursorAfter(cv, j - 1)
                 /\ TheValue.point =
                        CubicBezier(CursorAfter(cv, j - 1), cv[j].p1, cv[j].p2, cv[j].p3,
                                    pn, TheT.den)

\* t = 3/4 on a path of two cubics: idx = 1, local_t = 1/2, the second cubic.
C10_Witness ==
    /\ Evaluated
    /\ TheProc.segments_count = 2
    /\ Len(TheProc.cmd_vec) = 4
    /\ TheProc.cmd_vec[3].cmd = "Move"
    /\ TheT = [num |-> 3, den |-> 4]
    /\ TheValue.curve = 2
    /\ TheValue.prog = <<2, 4>>
    /\ TheValue.p0 = TheProc.cmd_vec[3].p1

(***************************************************************************)
(* C1. For every odd n >= 3 and every function f,                          *)
(* convert_to_fourier_series(f, n) returns a descriptor with exactly n     *)
(* coefficients, one for each k in -(n-1)/2 .. (n-1)/2, none skipped and   *)
(* none duplicated.                                                        *)
(***************************************************************************)
C1_ExactlyNCoefficients ==
    (IsSome(desc) /\ n_arg % 2 = 1 /\ n_arg >= 3) =>
        LET d == Unwrap(desc)
            h == (n_arg - 1) \div 2
        IN  /\ ~d.panicked
            /\ Len(d.coefficients) = n_arg
            /\ {d.coefficients[e].k : e \in 1..Len(d.coefficients)} = (-h)..h
            /\ \A e \in 1..Len(d.coefficients) :
                    d.coefficients[e].func = Unwrap(func_arg)

\* The analyzer has returned 9 coefficients for n = 9.
C1_Witness ==
    /\ n_arg = 9
    /\ IsSome(desc)
    /\ ~Unwrap(desc).panicked
    /\ Len(Unwrap(desc).coefficients) = 9

(***************************************************************************)
(* C2. The analyzer and the synthesizer agree on the frequency of every    *)
(* stored coefficient: for odd n and every storage index i in 0..n-1 the   *)
(* coefficient at index i was computed with k = i - (n-1)/2, and as_fn     *)
(* multiplies that same coefficient by exp(2*pi*i*k*t) with the same k,    *)
(* summing all n terms.                                                    *)
(***************************************************************************)
C2_SameFrequency ==
    IsSome(synth) =>
        LET cs == Unwrap(desc).coefficients
            terms == Unwrap(synth)
            h == (n_arg - 1) \div 2
        IN  /\ Len(terms) = n_arg
            /\ \A i \in 0..(n_arg - 1) :
                    /\ cs[i + 1].k = i - h
                    /\ terms[i + 1].c = cs[i + 1]
                    /\ terms[i + 1].k = cs[i + 1].k

\* The sum has been formed for n = 9: its first term is the one of k = -4,
\* its middle term the one of k = 0.
C2_Witness ==
    /\ n_arg = 9
    /\ IsSome(synth)
    /\ Unwrap(synth)[1].k = -4 /\ Unwrap(synth)[1].c.k = -4
    /\ Unwrap(synth)[5].k = 0 /\ Unwrap(synth)[5].c.k = 0

(***************************************************************************)
(* C3. The analyzer's oddness assertion is never violated by the           *)
(* application: after any sequence of slider changes (range 9..=501) and   *)
(* 'Calculate & Show' clicks, every call of convert_to_fourier_series      *)
(* receives an odd n with 9 <= n <= 501, and every descriptor held by the  *)
(* animation window has odd length.                                        *)
(***************************************************************************)
C3_AlwaysOdd ==
    /\ ~crashed
    /\ IsSome(last_call_n) =>
            /\ Unwrap(last_call_n) % 2 = 1
            /\ SliderMin <= Unwrap(last_call_n) /\ Unwrap(last_call_n) <= SliderMax
    /\ IsSome(animation_window.content) =>
            Len(Unwrap(animation_window.content)) % 2 = 1

\* A click has called the analyzer with n = 501, the slider's largest value,
\* which is also what the even value 500 is raised to; the window holds 501
\* coefficients.
C3_Witness ==
    /\ last_call_n = Some(SliderMax)
    /\ fourier_series_n = SliderMax
    /\ IsSome(animation_window.content)
    /\ Len(Unwrap(animation_window.content)) = SliderMax

(***************************************************************************)
(* The calls of inner that have ended, the intervals accepted among them,  *)
(* and sums over them                                                      *)
(***************************************************************************)
TheIntegrand == Unwrap(integrand)
Width(r) == r[2] - r[1]
LeftHalf(r) == <<r[1], (r[1] + r[2]) \div 2>>
RightHalf(r) == <<(r[1] + r[2]) \div 2, r[2]>>
Ended(r) == {i \in 1..Len(returns) : returns[i].range = r}
IsAccepted(e) == e.leaf
Accepted == SelectSeq(returns, IsAccepted)

RECURSIVE SumOfEstimates(_)
SumOfEstimates(es) ==
    IF es = << >> THEN Complex(0, 0)
    ELSE CAdd(SumOfEstimates(Pop(es)), es[Len(es)].last_res)

\* The error estimate of a level, squared: |left + right - parent|^2
ErrorSquared(e) ==
    LET d == CSub(CAdd(Integrate(LeftHalf(e.range), TheIntegrand),
                       Integrate(RightHalf(e.range), TheIntegrand)),
                  e.last_res)
    IN  d.re * d.re + d.im * d.im

(***************************************************************************)
(* C11. At every recursion level of integrate_v2, with parent the          *)
(* fixed-rule estimate on the interval and left, right the fixed-rule      *)
(* estimates on its two halves: if |left + right - parent| <= 15 * TOL or  *)
(* the remaining depth budget is 0, the level returns parent (not left +   *)
(* right); otherwise it returns the sum of the recursive results on the    *)
(* two halves, each called with its own half-interval estimate as the new  *)
(* parent and the depth budget reduced by one.                             *)
(***************************************************************************)
C11_CompositionRule ==
    \A i \in 1..Len(returns) :
        LET e == returns[i] IN
        /\ e.last_res = Integrate(e.range, TheIntegrand)
        /\ IF ErrorSquared(e) <= 15 * 15 \/ e.avail_depth = 0 THEN
               /\ e.leaf
               /\ e.value = e.last_res
           ELSE
               /\ ~e.leaf
               /\ \E l \in Ended(LeftHalf(e.range)), r \in Ended(RightHalf(e.range)) :
                    /\ l < r /\ r < i
                    /\ returns[l].avail_depth = e.avail_depth - 1
                    /\ returns[r].avail_depth = e.avail_depth - 1
                    /\ returns[l].last_res = Integrate(LeftHalf(e.range), TheIntegrand)
                    /\ returns[r].last_res = Integrate(RightHalf(e.range), TheIntegrand)
                    /\ e.value = CAdd(returns[l].value, returns[r].value)

\* A finished integration in which one level was accepted within the
\* tolerance although its halves' estimates do not add up to its own, one was
\* accepted only because the budget was 0, and the outermost level refined.
C11_Witness ==
    /\ IsSome(result)
    /\ \E i \in 1..Len(returns) :
        /\ returns[i].leaf /\ returns[i].avail_depth > 0
        /\ ErrorSquared(returns[i]) > 0
    /\ \E i \in 1..Len(returns) :
        /\ returns[i].leaf /\ returns[i].avail_depth = 0
        /\ ErrorSquared(returns[i]) > 15 * 15
    /\ ~returns[Len(returns)].leaf
    /\ returns[Len(returns)].range = range
    /\ Unwrap(result) = returns[Len(returns)].value

(***************************************************************************)
(* C12. Adaptive quadrature always terminates within its depth bound and   *)
(* never fails: the depth budget starts at 16, decreases by exactly 1 on   *)
(* each recursive call and is never decremented when it is 0, so for any   *)
(* integrand the recursion nests at most 16 bisections deep, every         *)
(* accepted interval has width at least (b - a) / 2^16, and a result is    *)
(* returned.                                                               *)
(***************************************************************************)
C12_DepthBudget ==
    /\ Len(stack) <= 16 + 1
    /\ \A i \in 1..Len(stack) : stack[i].avail_depth = 16 - (i - 1)
    /\ \A i \in 1..Len(stack) : stack[i].avail_depth >= 0
    /\ \A i \in 1..Len(returns) :
        /\ returns[i].avail_depth \in 0..16
        /\ returns[i].leaf => Width(returns[i].range) >= Width(range) \div (2 ^ 16)

\* The budget stays within 0..16 and in step with the nesting, accepted
\* intervals are no narrower than (b - a) / 2^16, and integrate_v2 returns.
C12_Terminates == []C12_DepthBudget /\ <>IsSome(result)

\* An integrand whose error estimate stays above the tolerance around its
\* spike: 17 calls are nested, the innermost with no budget left.
C12_Witness ==
    /\ Len(stack) = 17
    /\ Top.avail_depth = 0
    /\ Top.at = "enter"
    /\ ErrorSquared(Top) > 15 * 15
    /\ Width(Top.range) = Width(range) \div (2 ^ 16)

(***************************************************************************)
(* C13. For every odd coefficient count n, sorting the (k, c_k) pairs with *)
(* the animation window's comparator yields each k in                      *)
(* -(n-1)/2 .. (n-1)/2 exactly once, in ascending |k|, and for every       *)
(* m >= 1 the index +m appears immediately before -m (0, +1, -1, +2, -2,   *)
(* ...), although the pairs are stored in increasing k; the partial sums   *)
(* are formed in that order.                                               *)
(***************************************************************************)
C13_PartialSumOrder ==
    IsSome(arrows) =>
        LET stored == Unwrap(desc).coefficients
            n == Len(stored)
            h == (n - 1) \div 2
            sorted == Unwrap(arrows).coefficients
            sums == Unwrap(arrows).arrows_pre_sum
        IN  /\ n % 2 = 1
            /\ Len(sorted) = n
            /\ sorted[1][1] = 0
            /\ \A m \in 1..h : sorted[2 * m][1] = m /\ sorted[2 * m + 1][1] = -m
            /\ \A e \in 1..n : sorted[e][2] = stored[sorted[e][1] + h + 1]
            /\ Len(sums) = n
            /\ \A e \in 1..n :
                /\ Len(sums[e]) = e
                /\ \A j \in 1..e : sums[e][j].k = sorted[j][1] /\ sums[e][j].c = sorted[j][2]

\* The arrows of a descriptor of 13 coefficients, stored from k = -6 up to
\* k = 6 and summed from k = 0 out to k = 6, then k = -6.
C13_Witness ==
    /\ IsSome(arrows)
    /\ n_arg = 13
    /\ Unwrap(desc).coefficients[1].k = -6
    /\ Unwrap(desc).coefficients[13].k = 6
    /\ Unwrap(arrows).coefficients[1][1] = 0
    /\ Unwrap(arrows).coefficients[12][1] = 6
    /\ Unwrap(arrows).coefficients[13][1] = -6


(***************************************************************************)
(* C14. The intervals whose fixed-rule estimates are summed into           *)
(* integrate_v2's result always form an exact partition of the requested   *)
(* range [a, b]: for any pattern of accept/refine decisions, the accepted  *)
(* intervals are dyadic sub-intervals that are pairwise non-overlapping    *)
(* (sharing only endpoints) and whose union is [a, b].                     *)
(***************************************************************************)
C14_ExactPartition ==
    LET acc == Accepted
        a == range[1]
        b == range[2]
    IN  /\ \A i \in 1..Len(acc) :
            LET r == acc[i].range
                w == Width(range) \div (2 ^ (16 - acc[i].avail_depth))
            IN  /\ Width(r) = w /\ w > 0
                /\ (r[1] - a) % w = 0
                /\ a <= r[1] /\ r[2] <= b
                /\ r[1] = IF i = 1 THEN a ELSE acc[i - 1].range[2]
        /\ IsSome(result) =>
            /\ acc # << >>
            /\ acc[Len(acc)].range[2] = b
            /\ Unwrap(result) = SumOfEstimates(acc)

\* A finished integration that summed the estimates of accepted intervals
\* of different widths, the narrowest (b - a) / 2^16 wide.
C14_Witness ==
    /\ IsSome(result)
    /\ Len(Accepted) > 16
    /\ \E i, j \in 1..Len(Accepted) :
        /\ Width(Accepted[i].range) * 2 = Width(range)
        /\ Width(Accepted[j].range) = Width(range) \div (2 ^ 16)

(***************************************************************************)
(* C15. The animation window never shows a stale result: after any         *)
(* sequence of file drops, slider changes and 'Calculate & Show' clicks,   *)
(* the descriptor it holds is the outcome of the most recent click only    *)
(* (a click sets it to the outcome for the file and the n of that click,   *)
(* to none when the file fails validation, and nothing but a click changes *)
(* it); after every click the window is open, playing, and its stored t is *)
(* 0. The same holds for the preview window and 'Preview SVG'.             *)
(***************************************************************************)
C15_Parsed(path) == ParseSvgIntoProc(SvgOpen(path))

C15_Descriptor(path, n) ==
    IF C15_Parsed(path) = None THEN None
    ELSE Some(ConvertToFourierSeries(Unwrap(C15_Parsed(path)),
                                     IF n % 2 = 0 THEN n + 1 ELSE n).coefficients)

C15_JustClicked(w, content) ==
    /\ w.is_open
    /\ w.animate_start_t # None
    /\ w.t = [num |-> 0, den |-> 1]
    /\ w.content = content

====
